---- MODULE Spec2Model ----
(***************************************************************************)
(* fastapi-control: class-based controllers and constructor injection on   *)
(* top of FastAPI routers and the kink container.                          *)
(*                                                                         *)
(* Two specifications share the module's state:                            *)
(*   SpecDI  the injection adapter (fastapi_control/di.py): inject,        *)
(*           _Container.__getitem__, factory, instantiate;                 *)
(*   Spec    the route registrar, the controller binder and composition    *)
(*           (fastapi_control/controller.py).                              *)
(* Strings the code slices (paths, class names) are sequences of one-      *)
(* character strings, so that endswith / [:-1] / [:-10] are computed.      *)
(***************************************************************************)
EXTENDS Integers, Sequences, FiniteSets, TLC

VARIABLES di, injected, constructed, returned, result,
          routers, get_router, signatures, controllers, apps, last

vars == <<di, injected, constructed, returned, result,
          routers, get_router, signatures, controllers, apps, last>>

diVars == <<di, injected, constructed, returned, result>>

ctlVars == <<routers, get_router, signatures, controllers, apps, last>>

(***************************************************************************)
(* Bounds of the model.                                                    *)
(***************************************************************************)
\* registrations through inject(...) explored by SpecDI
MaxInjects == 3

\* objects handed out by the container and the factories explored by SpecDI
MaxCalls == 3

(***************************************************************************)
(* Injection adapter: fastapi_control/di.py                                *)
(***************************************************************************)
\* the absent alias argument of inject (alias: Optional[Type] = None)
None == "None"

\* the classes of example/main.py that go through inject(...)
ServiceTypes == {"GreeterAbstraction", "GretterImplementation", "SpanishGretterImplementation"}

\* the controller classes the binder is applied to (their text is ClassDefs below)
ControllerTypes == {"HomeController", "Users", "Controller"}

Types == ServiceTypes \cup ControllerTypes

\* _di = _Container(): kink's Container.__init__ (no services, factories, aliases)
EmptyContainer ==
    [services |-> {}, memoized_services |-> {}, factories |-> {},
     aliases |-> [t \in Types |-> <<>>]]

\* the outcome of a call that returns an object: cls() ran, a new object came back
Construct(cls, n) == [exc |-> "none", cls |-> cls, id |-> n + 1]

\* the outcome of a call that raises
Raise(exc, key) == [exc |-> exc, cls |-> key, id |-> 0]

\* kink Container.add_alias(name, target): append target to the alias list of name
add_alias(c, name, target) ==
    [c EXCEPT !.aliases[name] = Append(@, target)]

\* kink_inject(alias=..., use_factory=..., container=_di)(cls): with use_factory the
\* class goes to the factories table, otherwise to the (memoizing) services table
kink_inject(c, alias, use_factory, cls) ==
    LET reg == IF use_factory
               THEN [c EXCEPT !.factories = @ \cup {cls}]
               ELSE [c EXCEPT !.services = @ \cup {cls},
                              !.memoized_services = {m \in @ : m.key # cls}]
    IN  IF alias = None THEN reg ELSE add_alias(reg, alias, cls)

\* a registration that leaves out use_factory=True: the class becomes a cached service
inject_cached(c, alias, cls) ==
    kink_inject(c, alias, FALSE, cls)

\* inject(alias)(cls): both branches pass use_factory=True and container=_di
inject(c, alias, cls) ==
    kink_inject(c, alias, TRUE, cls)

\* kink Container._get(key): the memoized value, or the service built once and memoized
Container_get(c, key, n) ==
    IF \E m \in c.memoized_services : m.key = key
    THEN [out |-> (CHOOSE m \in c.memoized_services : m.key = key).value, di |-> c, n |-> n]
    ELSE IF key \notin c.services
    THEN [out |-> Raise("missing", key), di |-> c, n |-> n]
    ELSE [out |-> Construct(key, n),
          di  |-> [c EXCEPT !.memoized_services = @ \cup {[key |-> key, value |-> Construct(key, n)]}],
          n   |-> n + 1]

\* kink Container.__getitem__(key): a factory is invoked on every call; a service is
\* memoized; an alias is followed to its first target through _get only (the
\* behaviour the _Container docstring describes: use_factory is ignored for aliases)
Container_getitem(c, key, n) ==
    IF key \in c.factories
    THEN [out |-> Construct(key, n), di |-> c, n |-> n + 1]
    ELSE LET own == Container_get(c, key, n)
         IN  IF own.out.exc = "none" THEN own
             ELSE LET via == IF c.aliases[key] # <<>>
                             THEN Container_get(c, c.aliases[key][1], n)
                             ELSE own
                  IN  IF via.out.exc = "none" THEN via
                      ELSE [out |-> Raise("ServiceError", key), di |-> c, n |-> n]

\* a lookup without the alias override of _Container
getitem_no_override(c, key, n) ==
    Container_getitem(c, key, n)

\* _Container.__getitem__(key): an alias key is replaced by its first target, then
\* the lookup of the base class runs
getitem(c, key, n) ==
    Container_getitem(c, IF c.aliases[key] # <<>> THEN c.aliases[key][1] ELSE key, n)

\* a factory that asks the container instead of calling f
factory_via_container(c, f, n) ==
    getitem(c, f, n)

\* factory(f)(): lambda: f() -- f itself is called, the container is not consulted
factory(c, f, n) ==
    [out |-> Construct(f, n), di |-> c, n |-> n + 1]

\* instantiate(f): return f()
instantiate(c, f, n) ==
    [out |-> Construct(f, n), di |-> c, n |-> n + 1]

(***************************************************************************)
(* State after import of the library: an empty container, no router, no    *)
(* controller, two applications without controller routes.                 *)
(***************************************************************************)
\* the application objects of example/main.py
Apps == {"api", "other_api"}

\* no call made yet
NoCall == [op |-> "none", cls |-> None, exc |-> "none"]

\* no call of the injection adapter made yet
NoResult == [op |-> "none", key |-> None, out |-> [exc |-> "none", cls |-> None, id |-> 0]]

InitDI ==
    /\ di = EmptyContainer
    /\ injected = <<>>
    /\ constructed = 0
    /\ returned = <<>>
    /\ result = NoResult

(***************************************************************************)
(* Operations of the injection adapter.  injected lists the registrations  *)
(* made so far, constructed counts the constructor invocations, returned   *)
(* lists the identities of the objects handed out, result is the most      *)
(* recent call with its outcome.                                           *)
(***************************************************************************)
\* the objects handed out so far, after a call with outcome out
Handed(out) == IF out.exc = "none" THEN Append(returned, out.id) ELSE returned

\* @inject(alias) class cls / @inject() class cls
Inject(alias, cls) ==
    /\ Len(injected) < MaxInjects
    /\ di' = inject(di, alias, cls)
    /\ injected' = Append(injected, [cls |-> cls, alias |-> alias])
    /\ result' = [op |-> "inject", key |-> cls, out |-> [exc |-> "none", cls |-> cls, id |-> 0]]
    /\ UNCHANGED <<constructed, returned>>
    /\ UNCHANGED ctlVars

\* _di[key]
Resolve(key) ==
    /\ Len(returned) < MaxCalls
    /\ LET r == getitem(di, key, constructed)
       IN  /\ di' = r.di
           /\ constructed' = r.n
           /\ returned' = Handed(r.out)
           /\ result' = [op |-> "resolve", key |-> key, out |-> r.out]
    /\ UNCHANGED injected
    /\ UNCHANGED ctlVars

\* factory(f)()
CallFactory(f) ==
    /\ Len(returned) < MaxCalls
    /\ LET r == factory(di, f, constructed)
       IN  /\ di' = r.di
           /\ constructed' = r.n
           /\ returned' = Handed(r.out)
           /\ result' = [op |-> "factory", key |-> f, out |-> r.out]
    /\ UNCHANGED injected
    /\ UNCHANGED ctlVars

\* instantiate(f)
Instantiate(f) ==
    /\ Len(returned) < MaxCalls
    /\ LET r == instantiate(di, f, constructed)
       IN  /\ di' = r.di
           /\ constructed' = r.n
           /\ returned' = Handed(r.out)
           /\ result' = [op |-> "instantiate", key |-> f, out |-> r.out]
    /\ UNCHANGED injected
    /\ UNCHANGED ctlVars

NextDI ==
    \/ \E cls \in ServiceTypes : \E alias \in (ServiceTypes \ {cls}) \cup {None} :
           Inject(alias, cls)
    \/ \E key \in ServiceTypes : Resolve(key)
    \/ \E f \in ServiceTypes : CallFactory(f)
    \/ \E f \in ServiceTypes : Instantiate(f)

(***************************************************************************)
(* Route registrar: fastapi_control/controller.py                          *)
(***************************************************************************)
\* len("Controller"): the 10 of tag[:-10]
SuffixLen == 10

\* the text "Controller" that decorator() strips from a class name
ControllerSuffix == <<"C", "o", "n", "t", "r", "o", "l", "l", "e", "r">>

\* str.endswith
endswith(s, suffix) ==
    /\ Len(s) >= Len(suffix)
    /\ SubSeq(s, Len(s) - Len(suffix) + 1, Len(s)) = suffix

\* APIControllerRouter.api_route(path, include_in_schema=...): the registrations the
\* returned decorator makes, in the order it makes them
api_route(path, include_in_schema) ==
    LET given_path == path
        path_no_slash == IF endswith(given_path, <<"/">>)
                         THEN SubSeq(given_path, 1, Len(given_path) - 1)
                         ELSE given_path
        add_nontrailing_slash_path ==
            [path |-> path_no_slash, include_in_schema |-> include_in_schema]
        add_trailing_slash_path ==
            [path |-> path_no_slash \o <<"/">>, include_in_schema |-> FALSE]
    IN  IF given_path = <<"/">>
        THEN <<add_trailing_slash_path>>
        ELSE <<add_trailing_slash_path, add_nontrailing_slash_path>>

\* the pass-through options of a verb decorator that the model carries
NoKwargs == [status_code |-> 0, tags |-> <<>>]

\* RouteArgs(path=path, methods=[...], **kwargs)
RouteArgs(path, methods, kwargs) ==
    [path |-> path, methods |-> methods, status_code |-> kwargs.status_code,
     tags |-> kwargs.tags, include_in_schema |-> TRUE]

\* @get(path, **kwargs): the descriptor stored under ENDPOINT_KEY
get(path, kwargs) == RouteArgs(path, {"GET"}, kwargs)

\* @post(path, **kwargs)
post(path, kwargs) == RouteArgs(path, {"POST"}, kwargs)

\* @put(path, **kwargs)
put(path, kwargs) == RouteArgs(path, {"PUT"}, kwargs)

\* @patch(path, **kwargs)
patch(path, kwargs) == RouteArgs(path, {"PATCH"}, kwargs)

\* @delete(path, **kwargs)
delete(path, kwargs) == RouteArgs(path, {"DELETE"}, kwargs)

(***************************************************************************)
(* The controller classes the binder is applied to: their names, their     *)
(* function members, the declared parameters and the endpoint descriptors. *)
(***************************************************************************)
\* inspect.Parameter(name, kind, default=...)
Param(name, kind, default) == [name |-> name, kind |-> kind, default |-> default]

\* Parameter.empty
Empty == [is |-> "empty", arg |-> ""]

\* a literal default value
Value(v) == [is |-> "value", arg |-> v]

\* Depends(factory(cls))
Depends(cls) == [is |-> "Depends", arg |-> cls]

Self == Param("self", "POSITIONAL_OR_KEYWORD", Empty)

\* cls.__name__
ClassName ==
    [c \in ControllerTypes |->
        CASE c = "HomeController" -> <<"H", "o", "m", "e">> \o ControllerSuffix
          [] c = "Users" -> <<"U", "s", "e", "r", "s">>
          [] c = "Controller" -> ControllerSuffix]

\* getmembers(cls, isfunction): the functions of each class
Members ==
    [c \in ControllerTypes |->
        CASE c = "HomeController" -> {"get_greet", "describe"}
          [] c = "Users" -> {"ping", "broken"}
          [] c = "Controller" -> {"create"}]

Functions == UNION {Members[c] : c \in ControllerTypes}

\* signature(fn) of each function as declared in the class text
Declared ==
    [f \in Functions |->
        CASE f = "get_greet" -> <<Self>>
          [] f = "describe" -> <<Self, Param("name", "POSITIONAL_OR_KEYWORD", Empty)>>
          [] f = "create" -> <<Param("this", "POSITIONAL_OR_KEYWORD", Empty),
                               Param("item", "POSITIONAL_OR_KEYWORD", Empty),
                               Param("q", "POSITIONAL_OR_KEYWORD", Value("x")),
                               Param("extra", "VAR_KEYWORD", Empty)>>
          [] f = "ping" -> <<Self>>
          [] f = "broken" -> <<>>]

\* getattr(fn, ENDPOINT_KEY, None): set by the verb decorators on the tagged functions
EndpointKey ==
    [f \in Functions \ {"describe"} |->
        CASE f = "get_greet" -> get(<<"/", "g">>, NoKwargs)
          [] f = "create" -> post(<<"/">>, [status_code |-> 201, tags |-> << <<"w">> >>])
          [] f = "ping" -> put(<<"/", "p", "/">>, NoKwargs)
          [] f = "broken" -> delete(<<"/", "x">>, NoKwargs)]

\* the default prefix of the composition functions (prefix: str = "")
DefaultPrefix == <<>>

\* the controller(...) calls of the program text: each is evaluated once and
\* returns a decorator bound to its own routing group
Decorators == {"home", "tagged"}

\* the arguments of each controller(...) call: controller(prefix="/h") as in
\* example/main.py, and controller(tags=["t"])
ControllerArgs ==
    [d \in Decorators |->
        CASE d = "home" -> [prefix |-> <<"/", "h">>, tags |-> <<>>]
          [] d = "tagged" -> [prefix |-> <<>>, tags |-> << <<"t">> >>]]

(***************************************************************************)
(* Controller binder: controller(...), decorator, _controller,             *)
(* _fix_endpoint_signature                                                 *)
(***************************************************************************)
\* router = APIControllerRouter(prefix=prefix, tags=tags, ...): tags_arg keeps the
\* tags argument as given (APIRouter stores tags or [])
APIControllerRouter(prefix, tags) ==
    [created |-> TRUE, prefix |-> prefix, tags |-> tags, tags_arg |-> tags, routes |-> <<>>]

\* the routing group of a controller(...) call that has not been evaluated yet
NoRouter ==
    [created |-> FALSE, prefix |-> <<>>, tags |-> <<>>, tags_arg |-> <<>>, routes |-> <<>>]

\* a decorator that uses the class name as the tag without stripping the suffix
decorator_no_strip(router, cls) ==
    IF router.tags = <<>>
    THEN [router EXCEPT !.tags = Append(@, ClassName[cls])]
    ELSE router

\* a decorator that appends the class tag whether or not the group has tags
decorator_always_tags(router, cls) ==
    [router EXCEPT !.tags = Append(@, ClassName[cls])]

\* decorator(cls), the tag part: if not router.tags, append the class name without
\* a trailing "Controller"
decorator(router, cls) ==
    IF router.tags = <<>>
    THEN LET tag == ClassName[cls]
         IN  [router EXCEPT !.tags =
                Append(@, IF endswith(tag, ControllerSuffix)
                          THEN SubSeq(tag, 1, Len(tag) - SuffixLen)
                          ELSE tag)]
    ELSE router

\* a rewrite that accepts a function without parameters and leaves it as it is
fix_endpoint_signature_lenient(cls, old_parameters) ==
    [exc |-> "none",
     parameters |-> [i \in 1..Len(old_parameters) |->
                       IF i = 1 THEN [old_parameters[i] EXCEPT !.default = Depends(cls)]
                       ELSE [old_parameters[i] EXCEPT !.kind = "KEYWORD_ONLY"]]]

\* a rewrite that turns the instance parameter keyword-only like the others
fix_endpoint_signature_all_keyword(cls, old_parameters) ==
    IF old_parameters = <<>>
    THEN [exc |-> "IndexError", parameters |-> old_parameters]
    ELSE [exc |-> "none",
          parameters |-> [i \in 1..Len(old_parameters) |->
                            IF i = 1 THEN [old_parameters[i] EXCEPT !.default = Depends(cls),
                                                                    !.kind = "KEYWORD_ONLY"]
                            ELSE [old_parameters[i] EXCEPT !.kind = "KEYWORD_ONLY"]]]

\* _fix_endpoint_signature(cls, endpoint): old_parameters[0] raises IndexError on an
\* empty parameter list; otherwise the first parameter gets the default
\* Depends(factory(cls)) and every other parameter becomes KEYWORD_ONLY
fix_endpoint_signature(cls, old_parameters) ==
    IF old_parameters = <<>>
    THEN [exc |-> "IndexError", parameters |-> old_parameters]
    ELSE LET old_first_parameter == old_parameters[1]
             new_self_parameter == [old_first_parameter EXCEPT !.default = Depends(cls)]
         IN  [exc |-> "none",
              parameters |-> <<new_self_parameter>> \o
                  [i \in 1..(Len(old_parameters) - 1) |->
                      [old_parameters[i + 1] EXCEPT !.kind = "KEYWORD_ONLY"]]]

\* router.add_api_route(endpoint=endpoint, **asdict(args)): APIRouter.add_api_route
\* appends one route; its path is the group prefix plus the path as declared, its
\* tags the group tags plus the route tags, its dependant the signature read now
add_api_route(router, endpoint, args, parameters) ==
    [router EXCEPT !.routes =
        Append(@, [path |-> router.prefix \o args.path,
                   methods |-> args.methods,
                   endpoint |-> endpoint,
                   status_code |-> args.status_code,
                   tags |-> router.tags \o args.tags,
                   include_in_schema |-> args.include_in_schema,
                   dependant |-> parameters])]

\* the loop of _controller over the endpoints, in the order the list has them
RECURSIVE register_endpoints(_, _, _, _, _)
register_endpoints(router, sigs, cls, endpoints, i) ==
    IF i > Len(endpoints)
    THEN [exc |-> "none", router |-> router, signatures |-> sigs]
    ELSE LET endpoint == endpoints[i]
             fixed == fix_endpoint_signature(cls, sigs[endpoint])
         IN  IF fixed.exc # "none"
             THEN [exc |-> fixed.exc, router |-> router, signatures |-> sigs]
             ELSE register_endpoints(
                      add_api_route(router, endpoint, EndpointKey[endpoint], fixed.parameters),
                      [sigs EXCEPT ![endpoint] = fixed.parameters],
                      cls, endpoints, i + 1)

\* endpoints = [f for f in functions_set if getattr(f, ENDPOINT_KEY, None) is not None]
Endpoints(cls) == {f \in Members[cls] : f \in DOMAIN EndpointKey}

\* the orders in which a list built from a set of functions can hold them
Orders(S) ==
    {o \in [1..Cardinality(S) -> S] : \A i, j \in 1..Cardinality(S) : i # j => o[i] # o[j]}

(***************************************************************************)
(* Composition: add_controller, add_controllers                            *)
(***************************************************************************)
\* api.include_router(router, prefix=prefix): FastAPI adds every route of the group
\* to the application, in order, under the extra prefix
include_router(app_routes, router, prefix) ==
    app_routes \o [i \in 1..Len(router.routes) |->
                     [router.routes[i] EXCEPT !.path = prefix \o @]]

\* add_controller(api, controller, prefix=...): controller.get_router() of a class
\* that was never decorated raises NotImplementedError (APIController.get_router)
add_controller(app_routes, cls, getr, rtrs, prefix) ==
    IF getr[cls] = None
    THEN [exc |-> "NotImplementedError", routes |-> app_routes]
    ELSE [exc |-> "none", routes |-> include_router(app_routes, rtrs[getr[cls]], prefix)]

\* a composition that walks the registry from its last entry to its first
RECURSIVE add_controllers_reversed(_, _, _, _, _)
add_controllers_reversed(app_routes, ctrls, getr, rtrs, prefix) ==
    IF ctrls = <<>>
    THEN app_routes
    ELSE add_controllers_reversed(
             include_router(app_routes, rtrs[getr[ctrls[Len(ctrls)]]], prefix),
             SubSeq(ctrls, 1, Len(ctrls) - 1), getr, rtrs, prefix)

\* a composition that skips a group whose routes the application already has
RECURSIVE add_controllers_guarded(_, _, _, _, _)
add_controllers_guarded(app_routes, ctrls, getr, rtrs, prefix) ==
    IF ctrls = <<>>
    THEN app_routes
    ELSE LET had == {app_routes[i] : i \in 1..Len(app_routes)}
             new == include_router(<<>>, rtrs[getr[Head(ctrls)]], prefix)
         IN  add_controllers_guarded(
                 IF \E i \in 1..Len(new) : new[i] \in had THEN app_routes ELSE app_routes \o new,
                 Tail(ctrls), getr, rtrs, prefix)

\* add_controllers(api, prefix=...): for controller in __controllers__:
\* api.include_router(controller.get_router(), ...)
RECURSIVE add_controllers(_, _, _, _, _)
add_controllers(app_routes, ctrls, getr, rtrs, prefix) ==
    IF ctrls = <<>>
    THEN app_routes
    ELSE add_controllers(
             include_router(app_routes, rtrs[getr[Head(ctrls)]], prefix),
             Tail(ctrls), getr, rtrs, prefix)

(***************************************************************************)
(* Operations of the binder and of composition.  last records the call     *)
(* that was made and the exception it raised, if any.                       *)
(***************************************************************************)
\* routes attached to one application explored by Spec
MaxAppRoutes == 3

InitCtl ==
    /\ routers = [d \in Decorators |-> NoRouter]
    /\ get_router = [c \in ControllerTypes |-> None]
    /\ signatures = Declared
    /\ controllers = <<>>
    /\ apps = [a \in Apps |-> <<>>]
    /\ last = NoCall

Init == InitDI /\ InitCtl

\* d = controller(prefix=..., tags=...): a new routing group, and the decorator
\* bound to it
Controller(d) ==
    /\ ~routers[d].created
    /\ routers' = [routers EXCEPT ![d] =
                      APIControllerRouter(ControllerArgs[d].prefix, ControllerArgs[d].tags)]
    /\ last' = [op |-> "controller", cls |-> None, exc |-> "none"]
    /\ UNCHANGED <<get_router, signatures, controllers, apps>>
    /\ UNCHANGED diVars

\* the class statement of cls, decorated with the decorator of routing group r:
\* decorator(cls), then _controller(router, cls) with the endpoints taken in the
\* order `order`.  A class statement is executed once.
Decorate(r, cls, order) ==
    /\ routers[r].created
    /\ get_router[cls] = None
    /\ order \in Orders(Endpoints(cls))
    /\ LET tagged == decorator(routers[r], cls)
           done == register_endpoints(tagged, signatures, cls, order, 1)
       IN  /\ get_router' = [get_router EXCEPT ![cls] = r]
           /\ di' = inject(di, None, cls)
           /\ injected' = Append(injected, [cls |-> cls, alias |-> None])
           /\ routers' = [routers EXCEPT ![r] = done.router]
           /\ signatures' = done.signatures
           /\ controllers' = IF done.exc = "none" THEN Append(controllers, cls) ELSE controllers
           /\ last' = [op |-> "decorate", cls |-> cls, exc |-> done.exc]
    /\ UNCHANGED <<apps, constructed, returned, result>>

\* add_controller(api, cls)
AddController(a, cls) ==
    /\ LET done == add_controller(apps[a], cls, get_router, routers, DefaultPrefix)
       IN  /\ Len(done.routes) <= MaxAppRoutes
           /\ apps' = [apps EXCEPT ![a] = done.routes]
           /\ last' = [op |-> "add_controller", cls |-> cls, exc |-> done.exc]
    /\ UNCHANGED <<routers, get_router, signatures, controllers>>
    /\ UNCHANGED diVars

\* add_controllers(api)
AddControllers(a) ==
    /\ LET done == add_controllers(apps[a], controllers, get_router, routers, DefaultPrefix)
       IN  /\ Len(done) <= MaxAppRoutes
           /\ apps' = [apps EXCEPT ![a] = done]
           /\ last' = [op |-> "add_controllers", cls |-> None, exc |-> "none"]
    /\ UNCHANGED <<routers, get_router, signatures, controllers>>
    /\ UNCHANGED diVars

Next ==
    \/ \E d \in Decorators : Controller(d)
    \/ \E r \in Decorators : \E cls \in ControllerTypes :
           \E order \in Orders(Endpoints(cls)) : Decorate(r, cls, order)
    \/ \E a \in Apps : \E cls \in ControllerTypes : AddController(a, cls)
    \/ \E a \in Apps : AddControllers(a)

Spec == Init /\ [][Next]_vars

SpecDI == Init /\ [][NextDI]_vars

(***************************************************************************)
(* Properties of the injection adapter (checked under SpecDI).  They are   *)
(* stated over the list of registrations made, not over the container.     *)
(***************************************************************************)
\* the registrations made under alias k, by position
AliasEntries(k) == {i \in 1..Len(injected) : injected[i].alias = k}

\* the class registered first under alias k; k itself when k is no alias
FirstTarget(k) ==
    IF AliasEntries(k) = {}
    THEN k
    ELSE injected[CHOOSE i \in AliasEntries(k) : \A j \in AliasEntries(k) : i <= j].cls

\* k went through inject(...), with or without an alias
Registered(k) == \E i \in 1..Len(injected) : injected[i].cls = k

\* k went through inject() without an alias
RegisteredPlain(k) == \E i \in 1..Len(injected) : injected[i] = [cls |-> k, alias |-> None]

\* the call returned an object of class c that no earlier call had returned
FreshInstanceOf(c) ==
    /\ result.out.exc = "none"
    /\ result.out.cls = c
    /\ returned # <<>>
    /\ returned[Len(returned)] = result.out.id
    /\ \A i, j \in 1..Len(returned) : i # j => returned[i] # returned[j]

\* C3 as stated: every resolution of a class registered with inject() without an
\* alias, whatever was registered afterwards, runs that class's constructor and
\* returns an object never returned before.
C3_AsStated ==
    (result.op = "resolve" /\ RegisteredPlain(result.key))
        => FreshInstanceOf(result.key)

\* C3 amended: every resolution of a class registered with inject() without an alias
\* returns a newly constructed object never returned before; the object is of that
\* class unless the class is also an alias key, and then of the class registered
\* first under it.
C3_FreshEveryResolution ==
    (result.op = "resolve" /\ RegisteredPlain(result.key))
        => FreshInstanceOf(FirstTarget(result.key))

\* a class registered without an alias has been resolved three times, and it is not
\* an alias key
C3_Witness ==
    /\ result.op = "resolve"
    /\ RegisteredPlain(result.key)
    /\ AliasEntries(result.key) = {}
    /\ result.out.cls = result.key
    /\ Len(returned) = MaxCalls

\* C4 as stated: for every class C registered with inject(alias=A), resolving by A
\* and resolving by C both give a freshly constructed C, whatever else has been
\* registered.
C4_AsStated ==
    \A i \in 1..Len(injected) :
        (injected[i].alias # None /\ result.op = "resolve"
            /\ result.key \in {injected[i].alias, injected[i].cls})
        => FreshInstanceOf(injected[i].cls)

\* C4 amended: for every class C registered with inject(alias=A), resolving by A gives
\* a freshly constructed instance of the class registered first under A (C itself
\* when C was the first), and resolving by C gives a freshly constructed C unless C
\* is itself an alias key, and then the class registered first under C.
C4_AliasFollowsFirstTarget ==
    \A i \in 1..Len(injected) :
        (injected[i].alias # None /\ result.op = "resolve")
        => /\ (result.key = injected[i].alias
                 => /\ FreshInstanceOf(FirstTarget(injected[i].alias))
                    /\ (AliasEntries(injected[i].alias) \cap 1..(i - 1) = {}
                          => result.out.cls = injected[i].cls))
           /\ (result.key = injected[i].cls
                 => /\ FreshInstanceOf(FirstTarget(injected[i].cls))
                    /\ (AliasEntries(injected[i].cls) = {}
                          => result.out.cls = injected[i].cls))

\* an alias that is not a registered class has two classes under it and was just
\* resolved to the first of them
C4_Witness ==
    /\ result.op = "resolve"
    /\ Cardinality({injected[i].cls : i \in AliasEntries(result.key)}) = 2
    /\ ~Registered(result.key)
    /\ result.out.exc = "none"
    /\ result.out.cls = FirstTarget(result.key)

Bound == {controllers[i] : i \in 1..Len(controllers)}

\* cls.get_router()
Group(cls) == routers[get_router[cls]]

\* the positions of the routes of a route list that have handler f
RoutesOf(routes, f) == {i \in 1..Len(routes) : routes[i].endpoint = f}

\* C1: for every endpoint declared with path p on a decorated controller class, the
\* class's routing group has a route to that handler for the bare path and for its
\* trailing-slash variant; for the root path "/" it has the slash form only.
C1_BothSlashForms ==
    \A c \in Bound : \A f \in Endpoints(c) :
        LET p == EndpointKey[f].path
            bare == IF endswith(p, <<"/">>) THEN SubSeq(p, 1, Len(p) - 1) ELSE p
            has(q) == \E i \in RoutesOf(Group(c).routes, f) :
                          /\ Group(c).routes[i].path = Group(c).prefix \o q
                          /\ Group(c).routes[i].methods = EndpointKey[f].methods
        IN  /\ has(bare \o <<"/">>)
            /\ (p # <<"/">> <=> has(bare))
            /\ \A i \in 1..Len(api_route(p, TRUE)) : has(api_route(p, TRUE)[i].path)

\* the routes of the groups of the registry entries from position i on, in order
RECURSIVE RegistryRoutes(_)
RegistryRoutes(i) ==
    IF i > Len(controllers)
    THEN <<>>
    ELSE Group(controllers[i]).routes \o RegistryRoutes(i + 1)

\* one step of the program, seen as a composition call
C2_Step ==
    /\ (last'.op = "add_controller" /\ last'.exc = "none")
          => \E a \in Apps :
                apps' = [apps EXCEPT ![a] = apps[a] \o Group(last'.cls).routes]
    /\ (last'.op = "add_controllers")
          => \E a \in Apps :
                apps' = [apps EXCEPT ![a] = apps[a] \o RegistryRoutes(1)]

\* C2: add_controller(api, C) appends to api exactly the routes of C's routing group,
\* and add_controllers(api) appends the routes of the group of every registry entry,
\* one group per entry, in registry order.
C2_ComposeInOrder == [][C2_Step]_vars

\* add_controllers has just attached two controllers of two different groups to one
\* application, in registry order, and add_controller one of them to the other
C2_Witness ==
    /\ last.op = "add_controllers"
    /\ Len(controllers) = 2
    /\ get_router[controllers[1]] # get_router[controllers[2]]
    /\ Group(controllers[1]).routes # <<>>
    /\ Group(controllers[2]).routes # <<>>
    /\ \E a, b \in Apps :
          /\ a # b
          /\ apps[a] = Group(controllers[1]).routes \o Group(controllers[2]).routes
          /\ apps[b] = Group(controllers[2]).routes

\* one step of the program leaves the group of every registered class as it is
C6_AsStated_Step ==
    \A c \in Bound :
        /\ get_router'[c] = get_router[c]
        /\ routers'[get_router[c]].routes = Group(c).routes
        /\ routers'[get_router[c]].tags = Group(c).tags

\* C6 as stated: once the decoration of C has returned, C.get_router() and the
\* endpoint registrations and tags of that group stay the same under every later
\* call, also when the same decorator is applied to another class.
C6_AsStated == [][C6_AsStated_Step]_vars

\* one step of the program changes the group of a registered class only by appending
\* the endpoints of another class decorated with the same decorator
C6_Step ==
    \A c \in Bound :
        LET g == get_router[c]
        IN  /\ get_router'[c] = g
            /\ routers'[g].tags = routers[g].tags
            /\ routers'[g].prefix = routers[g].prefix
            /\ routers'[g].routes # routers[g].routes
                  => /\ last'.op = "decorate"
                     /\ last'.cls # c
                     /\ get_router'[last'.cls] = g
                     /\ Len(routers'[g].routes) > Len(routers[g].routes)
                     /\ SubSeq(routers'[g].routes, 1, Len(routers[g].routes)) = routers[g].routes
                     /\ \A i \in (Len(routers[g].routes) + 1)..Len(routers'[g].routes) :
                            routers'[g].routes[i].endpoint \in Members[last'.cls]

\* C6 amended: once the decoration of C has returned, C.get_router() returns the same
\* group for ever and its prefix and tags never change; its endpoint registrations
\* stay the same under later controller(...) calls, decorations through other
\* decorators and composition calls, and only grow, by the endpoints of the other
\* class, when the same decorator is applied to another class.
C6_GroupStable == [][C6_Step]_vars

\* one decorator has been applied to two classes whose decorations returned, the
\* other decorator exists, and the shared group has been attached to an application
C6_Witness ==
    /\ Cardinality(Bound) = 2
    /\ \A c, d \in Bound : get_router[c] = get_router[d]
    /\ \A d \in Decorators : routers[d].created
    /\ \E a \in Apps : \E c \in Bound : apps[a] = Group(c).routes

\* C7: decorating a class that has an endpoint without any parameter raises at
\* decoration time, and the class is not appended to the controller registry.
C7_FailsFast ==
    (last.op = "decorate" /\ \E f \in Endpoints(last.cls) : Declared[f] = <<>>)
        => /\ last.exc = "IndexError"
           /\ last.cls \notin Bound

\* the decoration of a class with a parameterless endpoint has just raised, after
\* another class was registered, and the class has its get_router set all the same
C7_Witness ==
    /\ last.op = "decorate"
    /\ \E f \in Endpoints(last.cls) : Declared[f] = <<>>
    /\ last.exc = "IndexError"
    /\ get_router[last.cls] # None
    /\ controllers # <<>>

\* the tag decorator() derives from each class name: the name without a trailing
\* "Controller"
ExpectedTag ==
    [c \in ControllerTypes |->
        CASE c = "HomeController" -> <<"H", "o", "m", "e">>
          [] c = "Users" -> <<"U", "s", "e", "r", "s">>
          [] c = "Controller" -> <<>>]

\* C8 as stated: for every decorated controller class whose controller(...) call got
\* no tags, the group's tag list is exactly the class name without a trailing
\* "Controller"; supplied tags are left as given.
C8_AsStated ==
    \A c \in Bound :
        IF Group(c).tags_arg = <<>>
        THEN Group(c).tags = <<ExpectedTag[c]>>
        ELSE Group(c).tags = Group(c).tags_arg

\* the classes a decorator has been applied to, by position in the order of
\* decoration
AppliedTo(d) == {i \in 1..Len(injected) : get_router[injected[i].cls] = d}

\* C8 amended: when controller(...) got no tags, the group's tag list after a
\* decoration is exactly one tag: the name, without a trailing "Controller", of the
\* first class the decorator was applied to (the decorated class itself unless the
\* decorator is used for several classes); supplied tags are left as given.
C8_TagOfFirstClass ==
    \A d \in Decorators :
        routers[d].created =>
            IF routers[d].tags_arg # <<>>
            THEN routers[d].tags = routers[d].tags_arg
            ELSE IF AppliedTo(d) = {}
            THEN routers[d].tags = <<>>
            ELSE routers[d].tags =
                    <<ExpectedTag[injected[CHOOSE i \in AppliedTo(d) :
                                              \A j \in AppliedTo(d) : i <= j].cls]>>

\* HomeController was decorated with a decorator without tags and its group has the
\* tag Home; another class was decorated with the decorator that has tags
C8_Witness ==
    /\ "HomeController" \in Bound
    /\ Group("HomeController").tags_arg = <<>>
    /\ Group("HomeController").tags = << <<"H", "o", "m", "e">> >>
    /\ \E c \in Bound : Group(c).tags_arg # <<>> /\ Group(c).tags = Group(c).tags_arg

\* how often route r occurs in a route list
Count(r, routes) == Cardinality({i \in 1..Len(routes) : routes[i] = r})

\* the routes a composition call has to attach: those of one class's group for
\* add_controller, those of the whole registry for add_controllers
ToAttach(call) ==
    IF call.op = "add_controller" THEN Group(call.cls).routes ELSE RegistryRoutes(1)

\* one step of the program, seen as a fresh attach
C9_Step ==
    (last'.op \in {"add_controller", "add_controllers"} /\ last'.exc = "none")
        => /\ UNCHANGED <<routers, get_router, signatures, controllers, di, injected>>
           /\ \E a \in Apps :
                 /\ \A b \in Apps \ {a} : apps'[b] = apps[b]
                 /\ Len(apps'[a]) = Len(apps[a]) + Len(ToAttach(last'))
                 /\ \A i \in 1..Len(apps'[a]) :
                       Count(apps'[a][i], apps'[a]) =
                           Count(apps'[a][i], apps[a]) + Count(apps'[a][i], ToAttach(last'))

\* C9: a composition call leaves the registry, the routing groups, the rewritten
\* signatures and the container as they are and attaches afresh: every route it has
\* to attach is added to one application once more, whatever that application
\* already has (no guard against duplicates), and no other application changes.
C9_FreshAttach == [][C9_Step]_vars

\* add_controllers was called twice on one application and once on the other: the
\* first has every route of the registry twice, the second once
C9_Witness ==
    /\ last.op = "add_controllers"
    /\ RegistryRoutes(1) # <<>>
    /\ \E a, b \in Apps :
          /\ a # b
          /\ apps[a] = RegistryRoutes(1) \o RegistryRoutes(1)
          /\ apps[b] = RegistryRoutes(1)

\* C10: for every class whose decoration returned, each function with an endpoint
\* descriptor is registered with the class's group exactly once, with the options of
\* its descriptor and with the rewritten parameter list: the first parameter keeps
\* its name and kind and has the default Depends(factory(cls)), every other parameter
\* keeps its position, name and default and is keyword-only; a function without a
\* descriptor keeps its declared parameters and is registered nowhere.
C10_RewrittenAndRegistered ==
    \A c \in Bound : \A f \in Members[c] :
        IF f \in DOMAIN EndpointKey
        THEN /\ Cardinality(RoutesOf(Group(c).routes, f)) = 1
             /\ \A i \in RoutesOf(Group(c).routes, f) :
                   LET route == Group(c).routes[i]
                   IN  /\ route.path = Group(c).prefix \o EndpointKey[f].path
                       /\ route.methods = EndpointKey[f].methods
                       /\ route.status_code = EndpointKey[f].status_code
                       /\ route.tags = Group(c).tags \o EndpointKey[f].tags
                       /\ route.dependant = signatures[f]
             /\ Len(signatures[f]) = Len(Declared[f])
             /\ signatures[f][1].name = Declared[f][1].name
             /\ signatures[f][1].kind = Declared[f][1].kind
             /\ signatures[f][1].default = Depends(c)
             /\ \A k \in 2..Len(Declared[f]) :
                   /\ signatures[f][k].name = Declared[f][k].name
                   /\ signatures[f][k].default = Declared[f][k].default
                   /\ signatures[f][k].kind = "KEYWORD_ONLY"
        ELSE /\ signatures[f] = Declared[f]
             /\ \A d \in Decorators : RoutesOf(routers[d].routes, f) = {}

\* a class with a four-parameter endpoint and a class with a function without a
\* descriptor have both been decorated
C10_Witness ==
    /\ \E c \in Bound : \E f \in Endpoints(c) : Len(Declared[f]) = 4
    /\ \E c \in Bound : \E f \in Members[c] : f \notin DOMAIN EndpointKey
    /\ last.op = "decorate"
    /\ last.exc = "none"

====
